---- MODULE Spec2Model ----
(***************************************************************************)
(* State-machine model of the Tia client: the local collection store and   *)
(* its upload / deletion coordinators, the chat session, and the identity  *)
(* that scopes their backend requests.  Two builds of the client exist in  *)
(* the sources: the backend-connected one (Index.tsx, the hooks and panels *)
(* that call services/api.ts) and the local-only one (the panels and hook  *)
(* that mutate the store without any request).                             *)
(***************************************************************************)
EXTENDS Integers, Sequences, FiniteSets, Bags, TLC

VARIABLES
    build,          \* which build of the client runs: "backend" or "local"
    currentUser,    \* AuthProvider.currentUser (NoUser for null)
    isAuthenticated,\* AuthProvider.isAuthenticated
    mounted,        \* an instance of the Index page is mounted
    databases,      \* useOptimizedTiaApp: the collection store
    now,            \* Date.now(), as a strictly increasing clock
    fetches,        \* listing requests in flight (bag)
    batches,        \* handleFileUpload invocations awaiting a response (bag)
    isUploading,    \* useFileUpload.isUploading
    lastReport,     \* the counts of the upload toast shown most recently
    deletes,        \* delete requests in flight (bag)
    deletingDocId,  \* DatabasePanel.deletingDocId
    requests,       \* every request sent so far: kind, user_id, identity
    ops,            \* number of user gestures so far
    chatState,      \* useOptimizedTiaApp.chatState
    savedChats,     \* useOptimizedTiaApp.savedChats
    isBotReplying,  \* ChatInterface.isBotReplying
    queries,        \* query requests in flight (bag)
    crashed,        \* a state updater threw while rendering: the page is gone
    storedUser,     \* localStorage item 'currentUser'
    isLoading,      \* AuthProvider.isLoading
    authError,      \* AuthProvider.error
    probe,          \* a file handed to validateFileType, and the verdict
    processing,     \* useOptimizedTiaApp.processing.isProcessing
    runs,           \* processDocuments invocations in progress (bag)
    timers,         \* pending setTimeout callbacks of the local chat (bag)
    authLog,        \* console.error lines of the authentication code (set)
    authCalls       \* login and signup calls awaiting their answer (bag)

storeVars == <<databases, fetches, batches, isUploading, lastReport,
               deletes, deletingDocId>>
chatVars == <<chatState, savedChats, isBotReplying, queries, crashed>>
authVars == <<currentUser, isAuthenticated, mounted>>
vars == <<build, currentUser, isAuthenticated, mounted, databases, now,
          fetches, batches, isUploading, lastReport, deletes,
          deletingDocId, requests, ops, chatState, savedChats, isBotReplying, queries,
          crashed, storedUser, isLoading, authError, probe, processing, runs,
          timers, authLog, authCalls>>

----------------------------------------------------------------------------
(* Bounds of the model.                                                    *)

MaxOps == 3
MaxBatchLen == 2
MaxChatOps == 4

----------------------------------------------------------------------------
(* Values.                                                                 *)

NoUser == [username |-> "", role |-> ""]
Users == { [username |-> "alice", role |-> "admin"],
           [username |-> "bob", role |-> "reader"] }

Builds == {"backend", "local"}

\* The placeholder identity of useFileUpload and of the userId fallbacks.
DefaultUser == "default_user"

None == "none"

MAX_FILE_SIZE == 52428800

allowedTypes ==
    { "application/pdf", "application/msword",
      "application/vnd.openxmlformats-officedocument.wordprocessingml.document",
      "application/vnd.ms-excel",
      "application/vnd.openxmlformats-officedocument.spreadsheetml.sheet",
      "application/vnd.ms-powerpoint",
      "application/vnd.openxmlformats-officedocument.presentationml.presentation",
      "image/jpeg", "image/png", "image/gif", "text/plain" }

\* Browser File objects a user may select or drop.
CandidateFiles ==
    { [name |-> "a.pdf", type |-> "application/pdf", size |-> 1048576],
      [name |-> "huge.exe", type |-> "application/x-msdownload",
       size |-> 62914560] }

\* Names a document is renamed to.
Names == {"a.pdf"}

\* Texts of the upload response's message field.
Messages == {"Document processed"}

RECURSIVE SeqsUpTo(_, _)
SeqsUpTo(S, n) ==
    IF n = 0 THEN {<<>>}
    ELSE LET shorter == SeqsUpTo(S, n - 1)
         IN  shorter \cup { Append(s, x) : s \in shorter, x \in S }

FileLists == SeqsUpTo(CandidateFiles, MaxBatchLen)

\* Selections with two different uploadable files, to tell their order.
BatchFiles ==
    CandidateFiles \cup
       { [name |-> "b.txt", type |-> "text/plain", size |-> 2048] }

BatchLists == SeqsUpTo(BatchFiles, MaxBatchLen)

----------------------------------------------------------------------------
(* File classification (useFileOperations).                                *)

\* A validation that requires both the listed type and the size.
validateFileType_Both(file) ==
    file.type \in allowedTypes /\ file.size < MAX_FILE_SIZE

validateFileType(file) ==
    file.type \in allowedTypes \/ file.size < MAX_FILE_SIZE

\* The candidate list without the filter.
ValidFiles_NoFilter(files) == files

\* Array.from(files).filter((file) => fileOperations.validateFileType(file))
ValidFiles(files) == SelectSeq(files, validateFileType)

\* invalidCount, shown in the "skipped" toast when it is not zero.
SkippedCount(files, validFiles) == Len(files) - Len(validFiles)

----------------------------------------------------------------------------
(* The collection store.                                                   *)

Max(a, b) == IF a >= b THEN a ELSE b

Doc(id, name, content, isProcessed, status) ==
    [id |-> id, name |-> name, content |-> content,
     isProcessed |-> isProcessed, processingStatus |-> status]

Database(id, name, count, docs) ==
    [id |-> id, name |-> name, documentCount |-> count, documents |-> docs]

\* useState initial value of databases: the two sample collections.
InitialDatabases ==
    << Database("1", "Company Policies", 12,
           << Doc("doc1", "Employee Handbook.pdf", "handbook", FALSE, None),
              Doc("doc2", "Security Guidelines.docx", "security", FALSE, None) >>),
       Database("2", "Technical Documentation", 28,
           << Doc("doc3", "API Documentation.pdf", "api", FALSE, None),
              Doc("doc4", "Project Timeline.xlsx", "timeline", FALSE, None) >>) >>

\* prev.map((db) => db.id === id ? changed : db), where changed[i] is what
\* the updater makes of the i-th collection.
MapDb(dbs, id, changed) ==
    [i \in 1..Len(dbs) |-> IF dbs[i].id = id THEN changed[i] ELSE dbs[i]]

DbIds(dbs) == { dbs[i].id : i \in 1..Len(dbs) }

DbById(dbs, id) == CHOOSE db \in { dbs[i] : i \in 1..Len(dbs) } : db.id = id

DocsNamed(db, name) == SelectSeq(db.documents, LAMBDA d : d.name = name)

DocsWithId(db, id) == SelectSeq(db.documents, LAMBDA d : d.id = id)

DocSet(db) == { db.documents[i] : i \in 1..Len(db.documents) }

createNewDatabase(name, t) == Database(ToString(t), name, 0, <<>>)

renameDatabaseIn(db, newName) == [db EXCEPT !.name = newName]

renameDocumentIn(db, docId, newName) ==
    [db EXCEPT !.documents =
        [i \in 1..Len(db.documents) |->
            IF db.documents[i].id = docId
            THEN [db.documents[i] EXCEPT !.name = newName]
            ELSE db.documents[i]]]

\* The record handleFileUpload builds from a successful upload response.
UploadedDoc(response) ==
    Doc(response.filename, response.filename, response.message, TRUE,
        "completed")

\* The setDatabases updater of handleFileUpload, on the target collection.
MergeUploaded(db, newDoc) ==
    LET others == SelectSeq(db.documents, LAMBDA d : d.name # newDoc.name)
    IN  [db EXCEPT !.documents = Append(others, newDoc),
                   !.documentCount = Len(others) + 1]

\* The setDatabases updater of the local-only handleFileUpload.
AppendLocal(db, newDoc) ==
    [db EXCEPT !.documents = Append(@, newDoc),
               !.documentCount = @ + 1]

LocalDoc(file, t) ==
    Doc("local-" \o ToString(t), file.name, "placeholder", FALSE, "pending")

\* The updater of the local-only deleteDocument.
RemoveDocumentLocal(db, docId) ==
    [db EXCEPT !.documents = SelectSeq(@, LAMBDA d : d.id # docId),
               !.documentCount = @ - 1]

\* The same updater with the plain decrement, without Math.max.
RemoveDocument_NoClamp(db, docId) ==
    [db EXCEPT !.documents = SelectSeq(@, LAMBDA d : d.id # docId),
               !.documentCount = @ - 1]

\* The onDatabaseAction updater of deleteDocument, on the target collection.
RemoveDocument(db, docId) ==
    [db EXCEPT !.documents = SelectSeq(@, LAMBDA d : d.id # docId),
               !.documentCount = Max(0, @ - 1)]

\* Index.fetchUserDocuments: the store built from a listing.
ListedDoc(filename) == Doc(filename, filename, "", TRUE, "completed")

Rehydrated(username, listing, t) ==
    IF Len(listing) > 0
    THEN << Database("db-" \o username \o "-" \o ToString(t), "My Documents",
                     Len(listing),
                     [i \in 1..Len(listing) |-> ListedDoc(listing[i])]) >>
    ELSE <<>>

\* What the listing endpoint may answer.
Listings == { <<>>, <<"a.pdf", "b.txt">> }

----------------------------------------------------------------------------
(* Identities carried by requests.                                         *)

\* useFileUpload: const userId = "default_user".
UploadUserId(user) == DefaultUser

\* DatabasePanel / useComponentProps: currentUser?.username || "default_user".
PanelUserId(user) ==
    IF user.username # "" THEN user.username ELSE DefaultUser

Request(kind, userId) ==
    [kind |-> kind, user_id |-> userId, auth |-> currentUser.username]

----------------------------------------------------------------------------
(* Bags of in-flight operations.                                           *)

One(x) == SetToBag({x})

\* The operations of an unmounted page instance keep running, but their
\* state setters no longer reach any mounted state.
Orphaned(bag) ==
    LET T == { [e EXCEPT !.live = FALSE] : e \in BagToSet(bag) }
    IN  [t \in T |-> CopiesIn(t, bag) + CopiesIn([t EXCEPT !.live = TRUE], bag)]

NoReport == [kind |-> "none"]


----------------------------------------------------------------------------
(* The chat session.                                                       *)

Message(id, type, content, refs) ==
    [id |-> id, type |-> type, content |-> content, documentReferences |-> refs]

\* useState initial value of chatState.messages.
InitialMessages ==
    << Message("1", "bot", "Hello! I'm Tia", <<>>),
       Message("2", "user", "What are the company's security guidelines?", <<>>),
       Message("3", "bot", "Based on the company's security documentation",
               << "Security Guidelines.docx", "Employee Handbook.pdf" >>) >>

InitialChatState ==
    [messages |-> InitialMessages, currentMessage |-> "", currentChatId |-> "1"]

InitialSavedChats ==
    << [id |-> "1", name |-> "Welcome Session", messages |-> InitialMessages] >>

\* What a user may type into the input buffer.
Inputs == {"", "  ", "q1", " q2 "}

\* String.prototype.trim on the inputs.
Trim(text) ==
    CASE text = "  " -> ""
      [] text = " q2 " -> "q2"
      [] OTHER -> text

ErrorText == "Sorry, I encountered an error trying to respond."

\* What the query endpoint may answer.
Answers == {"answer"}

SourceLists ==
    { <<>>,
      << [filename |-> "a.pdf", page |-> 1, preview |-> "p"] >>,
      << [filename |-> "b.txt", page |-> 0, preview |-> ""],
         [filename |-> "a.pdf", page |-> 2, preview |-> "q"] >> }

----------------------------------------------------------------------------
(* Initial state: the AuthProvider has read the persisted identity, no     *)
(* page is mounted yet.                                                    *)

\* The localStorage item 'currentUser': missing, a text JSON.parse rejects,
\* the text "null", or JSON.stringify of a user.
Absent == [kind |-> "absent", user |-> NoUser]
Garbage == [kind |-> "garbage", user |-> NoUser]
StoredNull == [kind |-> "null", user |-> NoUser]
Stringified(u) == [kind |-> "json", user |-> u]
StoredValues == {Absent, Garbage, StoredNull} \cup {Stringified(u) : u \in Users}

\* JSON.parse: throws on text that is not JSON, else returns the value.
JSONparse(stored) ==
    [threw |-> stored.kind = "garbage", value |-> stored.user]

\* The AuthProvider's initial effect without its try/catch.
InitialSession_NoCatch(stored) ==
    IF stored.kind = "absent"
    THEN [user |-> NoUser, authenticated |-> FALSE, stored |-> stored,
          threw |-> FALSE, logged |-> {}]
    ELSE [user |-> JSONparse(stored).value,
          authenticated |-> ~JSONparse(stored).threw,
          stored |-> stored, threw |-> JSONparse(stored).threw,
          logged |-> {}]

\* The AuthProvider's initial effect: a stored text that parses authenticates
\* with the parsed value; one that does not parse is removed.
InitialSession(stored) ==
    IF stored.kind = "absent"
    THEN [user |-> NoUser, authenticated |-> FALSE, stored |-> stored,
          threw |-> FALSE, logged |-> {}]
    ELSE IF JSONparse(stored).threw
    THEN [user |-> NoUser, authenticated |-> FALSE, stored |-> Absent,
          threw |-> FALSE,
          logged |-> {"Failed to parse stored user from localStorage"}]
    ELSE [user |-> JSONparse(stored).value, authenticated |-> TRUE,
          stored |-> stored, threw |-> FALSE, logged |-> {}]

\* Outcomes of the AuthProvider's initial effect: no stored record; a stored
\* user; the stored text "null", which parses and authenticates without a user.
Sessions == { InitialSession(st) : st \in StoredValues }

NoProbe == [file |-> [name |-> "", type |-> "", size |-> 0], verdict |-> None]

Init ==
    /\ build \in Builds
    /\ \E s \in Sessions :
          /\ build = "local" => s.stored = Absent /\ ~s.authenticated
          /\ currentUser = s.user
          /\ isAuthenticated = s.authenticated
          /\ storedUser = s.stored
    /\ isLoading = FALSE
    /\ authError = None
    /\ probe = NoProbe
    /\ processing = FALSE
    /\ runs = EmptyBag
    /\ timers = EmptyBag
    /\ authLog = {}
    /\ authCalls = EmptyBag
    /\ mounted = FALSE
    /\ databases = <<>>
    /\ now = 1000
    /\ fetches = EmptyBag
    /\ batches = EmptyBag
    /\ isUploading = FALSE
    /\ lastReport = NoReport
    /\ deletes = EmptyBag
    /\ deletingDocId = None
    /\ requests = {}
    /\ ops = 0
    /\ chatState = InitialChatState
    /\ savedChats = InitialSavedChats
    /\ isBotReplying = FALSE
    /\ queries = EmptyBag
    /\ crashed = FALSE

----------------------------------------------------------------------------
(* Routing and identity.                                                   *)

Running == mounted /\ ~crashed

IsAdmin == build = "local" \/ currentUser.role = "admin"

\* The route "/" renders Index (behind ProtectedRoute in the backend build):
\* fresh hook state, then the document-loading effect runs.
MountIndex ==
    /\ ~mounted /\ ~crashed
    /\ build = "local" \/ (isAuthenticated /\ ~isLoading)
    /\ mounted' = TRUE
    /\ processing' = FALSE
    /\ databases' = IF build = "backend" /\ currentUser.username = ""
                    THEN <<>> ELSE InitialDatabases
    /\ fetches' = IF build = "backend" /\ currentUser.username # ""
                  THEN fetches (+) One([user |-> currentUser.username,
                                        live |-> TRUE])
                  ELSE fetches
    /\ chatState' = InitialChatState
    /\ savedChats' = InitialSavedChats
    /\ isBotReplying' = FALSE
    /\ isUploading' = FALSE
    /\ deletingDocId' = None
    /\ UNCHANGED <<build, authCalls, authLog, storedUser, isLoading, authError, probe, runs, timers,
                   currentUser, isAuthenticated, now, batches,
                   lastReport, deletes, requests, ops, queries,
                   crashed>>

\* The effect of Index runs again after a render (its dependency
\* fileOperations is a new object on every render).
IndexEffect ==
    /\ Running /\ build = "backend" /\ ops < MaxOps
    /\ ops' = ops + 1
    /\ IF currentUser.username # ""
       THEN /\ fetches' = fetches (+) One([user |-> currentUser.username,
                                           live |-> TRUE])
            /\ UNCHANGED databases
       ELSE /\ databases' = <<>>
            /\ UNCHANGED fetches
    /\ UNCHANGED <<build, authCalls, authLog, storedUser, isLoading, authError, probe, processing, runs, timers,
                   currentUser, isAuthenticated, mounted, now, batches,
                   isUploading, lastReport, deletes, deletingDocId,
                   requests, chatState, savedChats, isBotReplying, queries,
                   crashed>>

\* A listing answer applied whatever became of the page that asked for it.
ListingResponds_Always(f, listing) ==
    /\ ~crashed
    /\ BagIn(f, fetches)
    /\ fetches' = fetches (-) One(f)
    /\ databases' = Rehydrated(f.user, listing, now)
    /\ now' = now + 1
    /\ UNCHANGED <<build, authCalls, authLog, storedUser, isLoading, authError, probe, processing, runs, timers,
                   currentUser, isAuthenticated, mounted, batches,
                   isUploading, lastReport, deletes, deletingDocId, requests,
                   ops, chatState, savedChats, isBotReplying, queries, crashed>>

\* fetchUserDocuments after the listing answered.
ListingResponds(f, listing) ==
    /\ ~crashed
    /\ BagIn(f, fetches)
    /\ fetches' = fetches (-) One(f)
    /\ IF f.live
       THEN /\ databases' = Rehydrated(f.user, listing, now)
            /\ now' = now + 1
       ELSE UNCHANGED <<databases, now>>
    /\ UNCHANGED <<build, authCalls, authLog, storedUser, isLoading, authError, probe, processing, runs, timers,
                   currentUser, isAuthenticated, mounted, batches,
                   isUploading, lastReport, deletes, deletingDocId, requests,
                   ops, chatState, savedChats, isBotReplying, queries, crashed>>

\* fetchUserDocuments after the listing request failed.
ListingFails(f) ==
    /\ ~crashed
    /\ BagIn(f, fetches)
    /\ fetches' = fetches (-) One(f)
    /\ databases' = IF f.live THEN <<>> ELSE databases
    /\ UNCHANGED <<build, authCalls, authLog, storedUser, isLoading, authError, probe, processing, runs, timers,
                   currentUser, isAuthenticated, mounted, now, batches,
                   isUploading, lastReport, deletes, deletingDocId, requests,
                   ops, chatState, savedChats, isBotReplying, queries, crashed>>

\* logout without localStorage.removeItem.
Logout_KeepsRecord ==
    /\ Running /\ build = "backend" /\ ops < MaxOps
    /\ ops' = ops + 1
    /\ currentUser' = NoUser
    /\ isAuthenticated' = FALSE
    /\ mounted' = FALSE
    /\ databases' = <<>>
    /\ fetches' = Orphaned(fetches)
    /\ batches' = Orphaned(batches)
    /\ deletes' = Orphaned(deletes)
    /\ queries' = Orphaned(queries)
    /\ isUploading' = FALSE
    /\ deletingDocId' = None
    /\ chatState' = InitialChatState
    /\ savedChats' = InitialSavedChats
    /\ isBotReplying' = FALSE
    /\ storedUser' = storedUser
    /\ authError' = None
    /\ processing' = FALSE
    /\ runs' = Orphaned(runs)
    /\ timers' = Orphaned(timers)
    /\ UNCHANGED <<build, authCalls, authLog, isLoading, probe,
                   now, lastReport, requests, crashed>>

\* AuthProvider.logout; ProtectedRoute then unmounts Index.
Logout ==
    /\ Running /\ build = "backend" /\ ops < MaxOps
    /\ ops' = ops + 1
    /\ currentUser' = NoUser
    /\ isAuthenticated' = FALSE
    /\ mounted' = FALSE
    /\ databases' = <<>>
    /\ fetches' = Orphaned(fetches)
    /\ batches' = Orphaned(batches)
    /\ deletes' = Orphaned(deletes)
    /\ queries' = Orphaned(queries)
    /\ isUploading' = FALSE
    /\ deletingDocId' = None
    /\ chatState' = InitialChatState
    /\ savedChats' = InitialSavedChats
    /\ isBotReplying' = FALSE
    /\ storedUser' = Absent
    /\ authError' = None
    /\ processing' = FALSE
    /\ runs' = Orphaned(runs)
    /\ timers' = Orphaned(timers)
    /\ UNCHANGED <<build, authCalls, authLog, isLoading, probe,
                   now, lastReport, requests, crashed>>

\* A call of an authentication endpoint: it carries the form's data only.
AuthRequest(kind) == [kind |-> kind, user_id |-> "", auth |-> ""]

\* An authentication call that awaits its answer.
AuthCall(kind) == [kind |-> kind]

\* A login whose call does not raise isLoading: the pages behind the route
\* guard stay reachable while it is outstanding.
LoginStarts_NoLoading ==
    /\ build = "backend" /\ ~mounted /\ ~crashed /\ ~isLoading
    /\ ops < MaxOps
    /\ ops' = ops + 1
    /\ authError' = None
    /\ authCalls' = authCalls (+) One(AuthCall("login"))
    /\ requests' = requests \cup {AuthRequest("login")}
    /\ UNCHANGED <<build, authLog, storedUser, currentUser, isAuthenticated,
                   isLoading, probe, processing, runs, timers,
                   mounted, databases, now, fetches, batches,
                   isUploading, lastReport, deletes, deletingDocId,
                   chatState, savedChats, isBotReplying, queries,
                   crashed>>

\* Submit on the login page (its button is disabled while isLoading):
\* AuthProvider.login up to its await.
LoginStarts ==
    /\ build = "backend" /\ ~mounted /\ ~crashed /\ ~isLoading
    /\ ops < MaxOps
    /\ ops' = ops + 1
    /\ isLoading' = TRUE
    /\ authError' = None
    /\ authCalls' = authCalls (+) One(AuthCall("login"))
    /\ requests' = requests \cup {AuthRequest("login")}
    /\ UNCHANGED <<build, authLog, storedUser, currentUser, isAuthenticated,
                   probe, processing, runs, timers,
                   mounted, databases, now, fetches, batches,
                   isUploading, lastReport, deletes, deletingDocId,
                   chatState, savedChats, isBotReplying, queries,
                   crashed>>

\* AuthProvider.login after loginUser answered with the user.
LoginSucceeds(u) ==
    /\ ~crashed
    /\ BagIn(AuthCall("login"), authCalls)
    /\ authCalls' = authCalls (-) One(AuthCall("login"))
    /\ currentUser' = u
    /\ isAuthenticated' = TRUE
    /\ storedUser' = Stringified(u)
    /\ isLoading' = FALSE
    /\ authError' = None
    /\ UNCHANGED <<build, authLog, probe, processing, runs, timers,
                   requests, ops,
                   mounted, databases, now, fetches, batches,
                   isUploading, lastReport, deletes, deletingDocId,
                   chatState, savedChats, isBotReplying, queries,
                   crashed>>

\* AuthProvider.login after loginUser threw: the in-memory identity is
\* cleared, the stored record is left as it was.
LoginFails ==
    /\ ~crashed
    /\ BagIn(AuthCall("login"), authCalls)
    /\ authCalls' = authCalls (-) One(AuthCall("login"))
    /\ currentUser' = NoUser
    /\ isAuthenticated' = FALSE
    /\ isLoading' = FALSE
    /\ authError' = "Login failed"
    /\ authLog' = authLog \cup {"Error during user login:"}
    /\ UNCHANGED <<build, storedUser, probe, processing, runs, timers,
                   requests, ops,
                   mounted, databases, now, fetches, batches,
                   isUploading, lastReport, deletes, deletingDocId,
                   chatState, savedChats, isBotReplying, queries,
                   crashed>>

\* Submit on the signup page: AuthProvider.signup up to its await.
SignupStarts ==
    /\ build = "backend" /\ ~mounted /\ ~crashed /\ ~isLoading
    /\ ops < MaxOps
    /\ ops' = ops + 1
    /\ isLoading' = TRUE
    /\ authError' = None
    /\ authCalls' = authCalls (+) One(AuthCall("signup"))
    /\ requests' = requests \cup {AuthRequest("signup")}
    /\ UNCHANGED <<build, authLog, storedUser, currentUser, isAuthenticated,
                   probe, processing, runs, timers,
                   mounted, databases, now, fetches, batches,
                   isUploading, lastReport, deletes, deletingDocId,
                   chatState, savedChats, isBotReplying, queries,
                   crashed>>

\* signup that sets the identity from the answer, as login does.
signup_AutoLogin(failed) ==
    /\ ~crashed
    /\ BagIn(AuthCall("signup"), authCalls)
    /\ authCalls' = authCalls (-) One(AuthCall("signup"))
    /\ isLoading' = FALSE
    /\ authError' = IF failed THEN "Signup failed" ELSE None
    /\ currentUser' = IF failed THEN currentUser
                      ELSE CHOOSE u \in Users : TRUE
    /\ isAuthenticated' = (isAuthenticated \/ ~failed)
    /\ storedUser' = IF failed THEN storedUser
                     ELSE Stringified(CHOOSE u \in Users : TRUE)
    /\ authLog' = IF failed THEN authLog \cup {"Error during user signup:"}
                           ELSE authLog
    /\ UNCHANGED <<build, probe, processing, runs, timers, requests, ops,
                   mounted, databases, now, fetches, batches,
                   isUploading, lastReport, deletes, deletingDocId,
                   chatState, savedChats, isBotReplying, queries,
                   crashed>>

\* AuthProvider.signup after signupUser answered or threw: only isLoading
\* and error are set.
signup(failed) ==
    /\ ~crashed
    /\ BagIn(AuthCall("signup"), authCalls)
    /\ authCalls' = authCalls (-) One(AuthCall("signup"))
    /\ isLoading' = FALSE
    /\ authError' = IF failed THEN "Signup failed" ELSE None
    /\ authLog' = IF failed THEN authLog \cup {"Error during user signup:"}
                           ELSE authLog
    /\ UNCHANGED <<build, currentUser, isAuthenticated, storedUser, probe,
                   processing, runs, timers, requests, ops,
                   mounted, databases, now, fetches, batches,
                   isUploading, lastReport, deletes, deletingDocId,
                   chatState, savedChats, isBotReplying, queries,
                   crashed>>

\* SignupPage.handleSubmit, the backend accepting the account.
SignupSucceeds == signup(FALSE)

\* SignupPage.handleSubmit, the backend refusing the account.
SignupFails == signup(TRUE)

\* The effect AuthProvider runs once after its first render: isLoading is
\* still true from useState and no call has been made.
AuthInit ==
    /\ build = "backend" /\ isLoading /\ ~crashed
    /\ authCalls = EmptyBag
    /\ currentUser' = InitialSession(storedUser).user
    /\ isAuthenticated' = InitialSession(storedUser).authenticated
    /\ storedUser' = InitialSession(storedUser).stored
    /\ crashed' = InitialSession(storedUser).threw
    /\ isLoading' = (InitialSession(storedUser).threw /\ isLoading)
    /\ authLog' = authLog \cup InitialSession(storedUser).logged
    /\ UNCHANGED <<build, authCalls, authError, probe, processing, runs,
                   timers, mounted, databases, now, fetches, batches,
                   isUploading, lastReport, deletes, deletingDocId,
                   requests, ops, chatState, savedChats, isBotReplying,
                   queries>>

----------------------------------------------------------------------------
(* DatabasePanel: collections and documents.                               *)

DbNames == {"Drafts"}

createDatabase(newDatabaseName) ==
    /\ Running /\ IsAdmin /\ ops < MaxOps
    /\ Trim(newDatabaseName) # ""
    /\ ops' = ops + 1
    /\ databases' = Append(databases, createNewDatabase(newDatabaseName, now))
    /\ now' = now + 1
    /\ UNCHANGED <<build, authCalls, authLog, storedUser, isLoading, authError, probe, processing, runs, timers,
                   currentUser, isAuthenticated, mounted, fetches,
                   batches, isUploading, lastReport, deletes,
                   deletingDocId, requests, chatState, savedChats,
                   isBotReplying, queries, crashed>>

deleteDatabase(dbId) ==
    /\ Running /\ IsAdmin /\ ops < MaxOps
    /\ dbId \in DbIds(databases)
    /\ ops' = ops + 1
    /\ databases' = SelectSeq(databases, LAMBDA db : db.id # dbId)
    /\ UNCHANGED <<build, authCalls, authLog, storedUser, isLoading, authError, probe, processing, runs, timers,
                   currentUser, isAuthenticated, mounted, now, fetches,
                   batches, isUploading, lastReport, deletes,
                   deletingDocId, requests, chatState, savedChats,
                   isBotReplying, queries, crashed>>

renameDatabase(dbId, newName) ==
    /\ Running /\ IsAdmin /\ ops < MaxOps
    /\ dbId \in DbIds(databases)
    /\ ops' = ops + 1
    /\ databases' = MapDb(databases, dbId,
                          [i \in 1..Len(databases) |->
                              renameDatabaseIn(databases[i], newName)])
    /\ UNCHANGED <<build, authCalls, authLog, storedUser, isLoading, authError, probe, processing, runs, timers,
                   currentUser, isAuthenticated, mounted, now, fetches,
                   batches, isUploading, lastReport, deletes,
                   deletingDocId, requests, chatState, savedChats,
                   isBotReplying, queries, crashed>>

renameDocument(dbId, docId, newName) ==
    /\ Running /\ IsAdmin /\ ops < MaxOps
    /\ dbId \in DbIds(databases)
    /\ Len(DocsWithId(DbById(databases, dbId), docId)) > 0
    /\ ops' = ops + 1
    /\ databases' = MapDb(databases, dbId,
                          [i \in 1..Len(databases) |->
                              renameDocumentIn(databases[i], docId, newName)])
    /\ UNCHANGED <<build, authCalls, authLog, storedUser, isLoading, authError, probe, processing, runs, timers,
                   currentUser, isAuthenticated, mounted, now, fetches,
                   batches, isUploading, lastReport, deletes,
                   deletingDocId, requests, chatState, savedChats,
                   isBotReplying, queries, crashed>>

----------------------------------------------------------------------------
(* Deletion coordinator (backend build).                                   *)

Statuses == {"File deleted successfully", "File not found"}

\* status.includes("successfully")
IncludesSuccessfully(status) == status = "File deleted successfully"

\* What the delete endpoint may answer for one requested filename.
DeleteResponses(filename) ==
    { [transport |-> "failed", files_status |-> <<>>],
      [transport |-> "ok", files_status |-> <<>>] }
    \cup { [transport |-> "ok",
            files_status |-> << [filename |-> filename, status |-> st] >>]
           : st \in Statuses }

\* The condition under which deleteDocument updates the store.
ReportsSuccess(response) ==
    /\ response.transport = "ok"
    /\ Len(response.files_status) > 0
    /\ IncludesSuccessfully(response.files_status[1].status)

\* deleteDocument up to its await: the click on a row's delete button.
StartDelete(dbId, doc) ==
    /\ Running /\ build = "backend" /\ ops < MaxOps
    /\ currentUser.role = "admin"
    /\ dbId \in DbIds(databases)
    /\ doc \in DocSet(DbById(databases, dbId))
    /\ deletingDocId # doc.id
    /\ ops' = ops + 1
    /\ deletingDocId' = doc.id
    /\ deletes' = deletes (+) One([db |-> dbId, docId |-> doc.id,
                                   docName |-> doc.name, live |-> TRUE])
    /\ requests' = requests \cup
                      {Request("delete", PanelUserId(currentUser))}
    /\ UNCHANGED <<build, authCalls, authLog, storedUser, isLoading, authError, probe, processing, runs, timers,
                   currentUser, isAuthenticated, mounted, databases,
                   now, fetches, batches, isUploading, lastReport,
                   chatState, savedChats, isBotReplying, queries, crashed>>

\* deleteDocument after its await: try / catch / finally.
DeleteResponds(d, response) ==
    /\ ~crashed
    /\ BagIn(d, deletes)
    /\ response \in DeleteResponses(d.docName)
    /\ deletes' = deletes (-) One(d)
    /\ databases' =
          IF d.live /\ ReportsSuccess(response)
          THEN MapDb(databases, d.db,
                     [i \in 1..Len(databases) |->
                         RemoveDocument(databases[i], d.docId)])
          ELSE databases
    /\ deletingDocId' = IF d.live THEN None ELSE deletingDocId
    /\ UNCHANGED <<build, authCalls, authLog, storedUser, isLoading, authError, probe, processing, runs, timers,
                   currentUser, isAuthenticated, mounted, now, fetches,
                   batches, isUploading, lastReport, requests, ops, chatState,
                   savedChats, isBotReplying, queries, crashed>>

\* The local-only deleteDocument.
LocalDelete(dbId, docId) ==
    /\ Running /\ build = "local" /\ ops < MaxOps
    /\ dbId \in DbIds(databases)
    /\ Len(DocsWithId(DbById(databases, dbId), docId)) > 0
    /\ ops' = ops + 1
    /\ databases' = MapDb(databases, dbId,
                          [i \in 1..Len(databases) |->
                              RemoveDocumentLocal(databases[i], docId)])
    /\ UNCHANGED <<build, authCalls, authLog, storedUser, isLoading, authError, probe, processing, runs, timers,
                   currentUser, isAuthenticated, mounted, now, fetches,
                   batches, isUploading, lastReport, deletes,
                   deletingDocId, requests, chatState, savedChats,
                   isBotReplying, queries, crashed>>

----------------------------------------------------------------------------
(* Upload coordinator (backend build).                                     *)

\* The toast of the files skipped at dispatch.
SkippedToast(invalidCount) == [kind |-> "skipped", count |-> invalidCount]

\* The toasts after the loop: how many files went through, how many did not.
FinishedToast(successfulUploads, failedUploads) ==
    [kind |-> "finished", successfulUploads |-> successfulUploads,
     failedUploads |-> failedUploads]

\* handleFileUpload up to its first await.
HandleFileUpload(files, targetDbId) ==
    LET validFiles == ValidFiles(files)
    IN  /\ lastReport' =
              IF Len(validFiles) # Len(files)
              THEN SkippedToast(SkippedCount(files, validFiles))
              ELSE lastReport
        /\ IF Len(validFiles) = 0
           THEN UNCHANGED <<batches, isUploading, requests>>
           ELSE /\ isUploading' = TRUE
                /\ batches' = batches (+)
                      One([db |-> targetDbId, valid |-> validFiles,
                           idx |-> 1, submitted |-> << validFiles[1] >>,
                           ok |-> 0, fail |-> 0,
                           userId |-> UploadUserId(currentUser),
                           live |-> TRUE])
                /\ requests' = requests \cup
                      {Request("upload", UploadUserId(currentUser))}

\* Files selected for, or dropped on, a collection of the panel.
StartUpload(files, targetDbId) ==
    /\ Running /\ build = "backend" /\ ops < MaxOps
    /\ targetDbId \in DbIds(databases)
    /\ ops' = ops + 1
    /\ HandleFileUpload(files, targetDbId)
    /\ UNCHANGED <<build, authCalls, authLog, storedUser, isLoading, authError, probe, processing, runs, timers,
                   currentUser, isAuthenticated, mounted, databases,
                   now, fetches, deletes, deletingDocId, chatState,
                   savedChats, isBotReplying, queries, crashed>>

MyDocuments == "My Documents"

\* handleChatFileUpload: files selected in, or dropped on, the chat input.
StartChatUpload(files) ==
    /\ Running /\ build = "backend" /\ ops < MaxOps
    /\ ops' = ops + 1
    /\ LET found == SelectSeq(databases, LAMBDA db : db.name = MyDocuments)
           newId == "my-docs-" \o UploadUserId(currentUser) \o "-"
                       \o ToString(now)
       IN  IF Len(found) = 0
           THEN /\ databases' = Append(databases,
                                    Database(newId, MyDocuments, 0, <<>>))
                /\ now' = now + 1
                /\ HandleFileUpload(files, newId)
           ELSE /\ UNCHANGED <<databases, now>>
                /\ HandleFileUpload(files, found[1].id)
    /\ UNCHANGED <<build, authCalls, authLog, storedUser, isLoading, authError, probe, processing, runs, timers,
                   currentUser, isAuthenticated, mounted, fetches,
                   deletes, deletingDocId, chatState, savedChats,
                   isBotReplying, queries, crashed>>

\* A loop that stops at the first failed file.
ContinueBatch_AbortOnFailure(b, b2) ==
    IF b2.idx < Len(b2.valid) /\ b2.fail = 0
    THEN /\ batches' = (batches (-) One(b)) (+)
               One([b2 EXCEPT !.idx = @ + 1,
                              !.submitted = Append(@, b2.valid[b2.idx + 1])])
         /\ requests' = requests \cup {Request("upload", b2.userId)}
         /\ UNCHANGED <<isUploading, lastReport>>
    ELSE /\ batches' = batches (-) One(b)
         /\ isUploading' = IF b2.live THEN FALSE ELSE isUploading
         /\ lastReport' = FinishedToast(b2.ok, b2.fail)
         /\ UNCHANGED requests

\* A loop that posts the first file again instead of the next one.
ContinueBatch_Resubmits(b, b2) ==
    IF b2.idx < Len(b2.valid)
    THEN /\ batches' = (batches (-) One(b)) (+)
               One([b2 EXCEPT !.idx = @ + 1,
                              !.submitted = Append(@, b2.valid[1])])
         /\ requests' = requests \cup {Request("upload", b2.userId)}
         /\ UNCHANGED <<isUploading, lastReport>>
    ELSE /\ batches' = batches (-) One(b)
         /\ isUploading' = IF b2.live THEN FALSE ELSE isUploading
         /\ lastReport' = FinishedToast(b2.ok, b2.fail)
         /\ UNCHANGED requests

\* The rest of the for loop after one file was answered: the next valid
\* file is posted, or the batch ends and reports its counts.
ContinueBatch(b, b2) ==
    IF b2.idx < Len(b2.valid)
    THEN /\ batches' = (batches (-) One(b)) (+)
               One([b2 EXCEPT !.idx = @ + 1,
                              !.submitted = Append(@, b2.valid[b2.idx + 1])])
         /\ requests' = requests \cup {Request("upload", b2.userId)}
         /\ UNCHANGED <<isUploading, lastReport>>
    ELSE /\ batches' = batches (-) One(b)
         /\ isUploading' = IF b2.live THEN FALSE ELSE isUploading
         /\ lastReport' = FinishedToast(b2.ok, b2.fail)
         /\ UNCHANGED requests

\* The upload endpoint's answer for a posted file.
UploadResponse(file, message) == [filename |-> file.name, message |-> message]

\* try branch of the loop body: uploadDocument resolved.
UploadSucceeds(b, message) ==
    /\ ~crashed
    /\ BagIn(b, batches)
    /\ LET newDoc == UploadedDoc(UploadResponse(b.valid[b.idx], message))
       IN  databases' =
              IF b.live
              THEN MapDb(databases, b.db,
                         [i \in 1..Len(databases) |->
                             MergeUploaded(databases[i], newDoc)])
              ELSE databases
    /\ ContinueBatch(b, [b EXCEPT !.ok = @ + 1])
    /\ UNCHANGED <<build, authCalls, authLog, storedUser, isLoading, authError, probe, processing, runs, timers,
                   currentUser, isAuthenticated, mounted, now, fetches,
                   deletes, deletingDocId, ops, chatState, savedChats,
                   isBotReplying, queries, crashed>>

\* catch branch of the loop body: uploadDocument threw.
UploadFails(b) ==
    /\ ~crashed
    /\ BagIn(b, batches)
    /\ ContinueBatch(b, [b EXCEPT !.fail = @ + 1])
    /\ UNCHANGED <<build, authCalls, authLog, storedUser, isLoading, authError, probe, processing, runs, timers,
                   currentUser, isAuthenticated, mounted, databases,
                   now, fetches, deletes, deletingDocId, ops, chatState,
                   savedChats, isBotReplying, queries, crashed>>

----------------------------------------------------------------------------
(* Upload in the local-only build.                                         *)

RECURSIVE AppendEach(_, _, _, _)
\* validFiles.forEach((file) => setDatabases(...)) of the local-only hook.
AppendEach(dbs, validFiles, targetDbId, t) ==
    IF validFiles = <<>> THEN dbs
    ELSE AppendEach(
            MapDb(dbs, targetDbId,
                  [i \in 1..Len(dbs) |->
                      AppendLocal(dbs[i], LocalDoc(Head(validFiles), t))]),
            Tail(validFiles), targetDbId, t + 1)

LocalUpload(files, targetDbId) ==
    /\ Running /\ build = "local" /\ ops < MaxOps
    /\ targetDbId \in DbIds(databases)
    /\ ops' = ops + 1
    /\ databases' = AppendEach(databases, ValidFiles(files), targetDbId, now)
    /\ now' = now + Len(ValidFiles(files))
    /\ UNCHANGED <<build, authCalls, authLog, storedUser, isLoading, authError, probe, processing, runs, timers,
                   currentUser, isAuthenticated, mounted, fetches,
                   batches, isUploading, lastReport, deletes,
                   deletingDocId,
                   requests, chatState, savedChats, isBotReplying, queries,
                   crashed>>

----------------------------------------------------------------------------
(* Document processing (useOptimizedTiaApp.actions.processDocuments).      *)

\* databases.flatMap(db => db.documents.filter(doc => !doc.isProcessed))
RECURSIVE UnprocessedDocs(_)
UnprocessedDocs(dbs) ==
    IF dbs = <<>> THEN <<>>
    ELSE SelectSeq(Head(dbs).documents, LAMBDA d : ~d.isProcessed)
            \o UnprocessedDocs(Tail(dbs))

\* The count that decides whether the processing button is rendered.
unprocessedDocsCount == Len(UnprocessedDocs(databases))

\* actions is built by useMemo with an empty dependency list: the databases
\* that processDocuments reads are those of the hook's first render.
ClosureDatabases == InitialDatabases

\* The first setDatabases updater of the loop.
MarkProcessing(dbs, docId) ==
    [i \in 1..Len(dbs) |->
        [dbs[i] EXCEPT !.documents =
            [j \in 1..Len(dbs[i].documents) |->
                IF dbs[i].documents[j].id = docId
                THEN [dbs[i].documents[j] EXCEPT
                         !.processingStatus = "processing"]
                ELSE dbs[i].documents[j]]]]

\* The second setDatabases updater of the loop.
MarkProcessed(dbs, docId) ==
    [i \in 1..Len(dbs) |->
        [dbs[i] EXCEPT !.documents =
            [j \in 1..Len(dbs[i].documents) |->
                IF dbs[i].documents[j].id = docId
                THEN [dbs[i].documents[j] EXCEPT
                         !.isProcessed = TRUE,
                         !.processingStatus = "completed",
                         !.content = "Enhanced content"]
                ELSE dbs[i].documents[j]]]]

\* Click on the processing button: processDocuments up to its first await.
processDocuments ==
    /\ Running /\ ops < MaxOps
    /\ IsAdmin
    /\ unprocessedDocsCount > 0
    /\ ~processing
    /\ ops' = ops + 1
    /\ LET unprocessedDocs == UnprocessedDocs(ClosureDatabases)
       IN  IF Len(unprocessedDocs) = 0
           THEN UNCHANGED <<processing, databases, runs>>
           ELSE /\ processing' = TRUE
                /\ databases' = MarkProcessing(databases,
                                               unprocessedDocs[1].id)
                /\ runs' = runs (+) One([docs |-> unprocessedDocs,
                                         i |-> 1, live |-> TRUE])
    /\ UNCHANGED <<build, authCalls, authLog, storedUser, isLoading, authError, probe,
                   timers, currentUser, isAuthenticated, mounted, now,
                   fetches, batches, isUploading, lastReport, deletes,
                   deletingDocId, requests, chatState, savedChats,
                   isBotReplying, queries, crashed>>

\* The simulated processing time of document i of a run has passed: the
\* document is marked, and the next iteration starts.
DocumentProcessed(r) ==
    /\ ~crashed
    /\ BagIn(r, runs)
    /\ r.i <= Len(r.docs)
    /\ runs' = (runs (-) One(r)) (+) One([r EXCEPT !.i = @ + 1])
    /\ databases' =
          IF ~r.live THEN databases
          ELSE IF r.i < Len(r.docs)
          THEN MarkProcessing(MarkProcessed(databases, r.docs[r.i].id),
                              r.docs[r.i + 1].id)
          ELSE MarkProcessed(databases, r.docs[r.i].id)
    /\ UNCHANGED <<build, authCalls, authLog, storedUser, isLoading, authError, probe,
                   processing, timers, currentUser, isAuthenticated, mounted,
                   now, fetches, batches, isUploading, lastReport, deletes,
                   deletingDocId, requests, ops, chatState, savedChats,
                   isBotReplying, queries, crashed>>

\* The timeout set after the loop fires.
ProcessingEnds(r) ==
    /\ ~crashed
    /\ BagIn(r, runs)
    /\ r.i > Len(r.docs)
    /\ runs' = runs (-) One(r)
    /\ processing' = IF r.live THEN FALSE ELSE processing
    /\ UNCHANGED <<build, authCalls, authLog, storedUser, isLoading, authError, probe,
                   timers, currentUser, isAuthenticated, mounted, databases,
                   now, fetches, batches, isUploading, lastReport, deletes,
                   deletingDocId, requests, ops, chatState, savedChats,
                   isBotReplying, queries, crashed>>

----------------------------------------------------------------------------
(* Chat session (backend build).                                           *)

\* useComponentProps: currentUserId handed to ChatInterface.
ChatUserId(user) == PanelUserId(user)

\* onChange of the chat textarea.
SetInput(text) ==
    /\ Running /\ ops < MaxChatOps
    /\ text # chatState.currentMessage
    /\ ops' = ops + 1
    /\ chatState' = [chatState EXCEPT !.currentMessage = text]
    /\ UNCHANGED <<build, authCalls, authLog, storedUser, isLoading, authError, probe, processing, runs, timers,
                   currentUser, isAuthenticated, mounted, databases,
                   now, fetches, batches, isUploading, lastReport,
                   deletes, deletingDocId, requests, savedChats,
                   isBotReplying, queries, crashed>>

\* The optimistic update of the saved chat that has the active id.
AppendToSaved(chats, chatId, message) ==
    [i \in 1..Len(chats) |->
        IF chats[i].id = chatId
        THEN [chats[i] EXCEPT !.messages = Append(@, message)]
        ELSE chats[i]]

\* handleSendMessage up to its await.  (The dependency array of the
\* callback names userId, which the component does not declare; the model
\* follows the handler body, which reads currentUserId.)
HandleSendMessage ==
    LET content == Trim(chatState.currentMessage)
        userMessage == Message(ToString(now), "user", content, <<>>)
        userId == ChatUserId(currentUser)
    IN  /\ content # ""
        /\ chatState' = [chatState EXCEPT
                            !.messages = Append(@, userMessage),
                            !.currentMessage = ""]
        /\ savedChats' = AppendToSaved(savedChats, chatState.currentChatId,
                                       userMessage)
        /\ now' = now + 1
        /\ IF userId = ""
           THEN /\ isBotReplying' = FALSE
                /\ UNCHANGED <<queries, requests>>
           ELSE /\ isBotReplying' = TRUE
                /\ queries' = queries (+)
                      One([question |-> content, user_id |-> userId,
                           chatId |-> chatState.currentChatId,
                           live |-> TRUE])
                /\ requests' = requests \cup {Request("query", userId)}

\* Click on the send button (disabled while replying or on a blank input).
SendByButton ==
    /\ Running /\ build = "backend" /\ ops < MaxChatOps
    /\ ~isBotReplying
    /\ Trim(chatState.currentMessage) # ""
    /\ ops' = ops + 1
    /\ HandleSendMessage
    /\ UNCHANGED <<build, authCalls, authLog, storedUser, isLoading, authError, probe, processing, runs, timers,
                   currentUser, isAuthenticated, mounted, databases,
                   fetches, batches, isUploading, lastReport,
                   deletes, deletingDocId, crashed>>

\* Enter (without Shift) in the textarea.
SendByEnter ==
    /\ Running /\ build = "backend" /\ ops < MaxChatOps
    /\ ops' = ops + 1
    /\ HandleSendMessage
    /\ UNCHANGED <<build, authCalls, authLog, storedUser, isLoading, authError, probe, processing, runs, timers,
                   currentUser, isAuthenticated, mounted, databases,
                   fetches, batches, isUploading, lastReport,
                   deletes, deletingDocId, crashed>>

\* The message the log is asked to append after a successful answer.  The
\* handler builds botResponseMessage but its updaters append botMessage, a
\* name bound nowhere: evaluating the updater throws a ReferenceError.
Unbound == [unbound |-> TRUE]

AppendedOnSuccess(botResponseMessage) == Unbound

\* try branch of handleSendMessage: queryDocuments resolved.
QuerySucceeds(q, answer, sources) ==
    /\ ~crashed
    /\ BagIn(q, queries)
    /\ queries' = queries (-) One(q)
    /\ LET botResponseMessage ==
               Message(ToString(now + 1), "bot", answer, sources)
           appended == AppendedOnSuccess(botResponseMessage)
       IN  IF ~q.live
              THEN UNCHANGED <<chatState, savedChats, isBotReplying, crashed>>
              ELSE IF appended = Unbound
              THEN /\ crashed' = TRUE
                   /\ isBotReplying' = FALSE
                   /\ UNCHANGED <<chatState, savedChats>>
              ELSE /\ chatState' = [chatState EXCEPT
                                      !.messages = Append(@, appended)]
                   /\ savedChats' = AppendToSaved(savedChats, q.chatId,
                                                  appended)
                   /\ isBotReplying' = FALSE
                   /\ UNCHANGED crashed
    /\ now' = now + 2
    /\ UNCHANGED <<build, authCalls, authLog, storedUser, isLoading, authError, probe, processing, runs, timers,
                   currentUser, isAuthenticated, mounted, databases,
                   fetches, batches, isUploading, lastReport, deletes,
                   deletingDocId, requests, ops>>

\* A catch branch that takes the unanswered question back out of the log.
AppendedOnFailure_DropsQuestion(messages, t) ==
    Append(SubSeq(messages, 1, Len(messages) - 1),
           Message(ToString(t + 1), "bot", ErrorText, <<>>))

\* The onChatAction updater of the catch branch.
AppendedOnFailure(messages, t) ==
    Append(messages, Message(ToString(t + 1), "bot", ErrorText, <<>>))

\* catch branch of handleSendMessage: queryDocuments threw.
QueryFails(q) ==
    /\ ~crashed
    /\ BagIn(q, queries)
    /\ queries' = queries (-) One(q)
    /\ IF q.live
       THEN /\ chatState' = [chatState EXCEPT !.messages =
                                    AppendedOnFailure(@, now)]
            /\ isBotReplying' = FALSE
       ELSE UNCHANGED <<chatState, isBotReplying>>
    /\ now' = now + 2
    /\ UNCHANGED <<build, authCalls, authLog, storedUser, isLoading, authError, probe, processing, runs, timers,
                   currentUser, isAuthenticated, mounted, databases,
                   fetches, batches, isUploading, lastReport, deletes,
                   deletingDocId, requests, ops, savedChats, crashed>>

----------------------------------------------------------------------------
(* Chat session (local build: simulated responses) and message deletion.   *)

\* The saved chat with the active id gets the given messages.
ReplaceSaved(chats, chatId, messages) ==
    [i \in 1..Len(chats) |->
        IF chats[i].id = chatId
        THEN [chats[i] EXCEPT !.messages = messages]
        ELSE chats[i]]

\* The text of the simulated answer.
BotText(question) == "I understand you're asking about " \o question

\* handleSendMessage of the local build: the log with the user's message is
\* computed from the rendered chatState and kept by the timeout's callback.
LocalSend ==
    LET userMessage == Message(ToString(now), "user",
                               chatState.currentMessage, <<>>)
        newMessages == Append(chatState.messages, userMessage)
    IN  /\ Running /\ build = "local" /\ ops < MaxChatOps
        /\ Trim(chatState.currentMessage) # ""
        /\ ops' = ops + 1
        /\ chatState' = [chatState EXCEPT !.messages = newMessages,
                                          !.currentMessage = ""]
        /\ savedChats' = ReplaceSaved(savedChats, chatState.currentChatId,
                                      newMessages)
        /\ timers' = timers (+)
              One([newMessages |-> newMessages,
                   question |-> chatState.currentMessage,
                   chatId |-> chatState.currentChatId, live |-> TRUE])
        /\ now' = now + 1
        /\ UNCHANGED <<build, authCalls, authLog, storedUser, isLoading, authError,
                       probe, processing, runs, currentUser, isAuthenticated,
                       mounted, databases, fetches, batches, isUploading,
                       lastReport, deletes, deletingDocId, requests,
                       isBotReplying, queries, crashed>>

\* The callback of the 1500 ms timeout set by the local handleSendMessage.
LocalBotReplies(t) ==
    LET botMessage == Message(ToString(now + 1), "bot", BotText(t.question),
                              <<"doc1", "doc2">>)
        updatedMessages == Append(t.newMessages, botMessage)
    IN  /\ ~crashed
        /\ BagIn(t, timers)
        /\ timers' = timers (-) One(t)
        /\ IF t.live
           THEN /\ chatState' = [chatState EXCEPT
                                    !.messages = updatedMessages]
                /\ savedChats' = ReplaceSaved(savedChats, t.chatId,
                                              updatedMessages)
           ELSE UNCHANGED <<chatState, savedChats>>
        /\ now' = now + 2
        /\ UNCHANGED <<build, authCalls, authLog, storedUser, isLoading, authError,
                       probe, processing, runs, currentUser, isAuthenticated,
                       mounted, databases, fetches, batches, isUploading,
                       lastReport, deletes, deletingDocId, requests, ops,
                       isBotReplying, queries, crashed>>

\* The ids of the messages shown, each with its delete button.
MessageIds == { chatState.messages[i].id : i \in 1..Len(chatState.messages) }

\* deleteChatMessage (the same in both builds).
deleteChatMessage(messageId) ==
    LET updatedMessages == SelectSeq(chatState.messages,
                                     LAMBDA m : m.id # messageId)
    IN  /\ Running /\ ops < MaxChatOps
        /\ messageId \in MessageIds
        /\ ops' = ops + 1
        /\ chatState' = [chatState EXCEPT !.messages = updatedMessages]
        /\ savedChats' = ReplaceSaved(savedChats, chatState.currentChatId,
                                      updatedMessages)
        /\ UNCHANGED <<build, authCalls, authLog, storedUser, isLoading, authError,
                       probe, processing, runs, timers, currentUser,
                       isAuthenticated, mounted, databases, now, fetches,
                       batches, isUploading, lastReport, deletes,
                       deletingDocId, requests, isBotReplying, queries,
                       crashed>>

----------------------------------------------------------------------------
(* validateFileType on its own.                                            *)

\* Declared MIME types: the listed ones, an unlisted one, and none.
ProbeTypes == allowedTypes \cup {"application/x-msdownload", "video/mp4", ""}

\* Sizes in bytes, around the ceiling.
ProbeSizes == {0, 1, MAX_FILE_SIZE - 1, MAX_FILE_SIZE, MAX_FILE_SIZE + 1,
               2 * MAX_FILE_SIZE}

ProbeFiles ==
    { [name |-> "f", type |-> ty, size |-> sz] :
         ty \in ProbeTypes, sz \in ProbeSizes }

\* A call of validateFileType on the file at hand; the verdict is kept.
Validate ==
    /\ probe.verdict = None
    /\ probe' = [probe EXCEPT !.verdict =
                    IF validateFileType(probe.file) THEN "accepted"
                                                    ELSE "rejected"]
    /\ UNCHANGED <<build, authCalls, authLog, storedUser, isLoading, authError,
                   processing, runs, timers, currentUser, isAuthenticated,
                   mounted, databases, now, fetches, batches, isUploading,
                   lastReport, deletes, deletingDocId, requests, ops,
                   chatState, savedChats, isBotReplying, queries, crashed>>

----------------------------------------------------------------------------
(* Saved chat sessions.                                                    *)

\* handleSaveConversation: the log is stored under a new id, which becomes
\* the active one.
handleSaveConversation ==
    LET newChat == [id |-> ToString(now), name |-> "Chat Session",
                    messages |-> chatState.messages]
    IN  /\ Running /\ ops < MaxChatOps
        /\ ops' = ops + 1
        /\ savedChats' = Append(savedChats, newChat)
        /\ chatState' = [chatState EXCEPT !.currentChatId = newChat.id]
        /\ now' = now + 1
        /\ UNCHANGED <<build, authCalls, authLog, storedUser, isLoading, authError,
                       probe, processing, runs, timers, currentUser,
                       isAuthenticated, mounted, databases, fetches, batches,
                       isUploading, lastReport, deletes, deletingDocId,
                       requests, isBotReplying, queries, crashed>>

\* Ids a session may be asked for: the listed ones, and one that is not.
SavedChatIds == { savedChats[i].id : i \in 1..Len(savedChats) }

AskedChatIds == SavedChatIds \cup {"missing"}

\* savedChats.find(c => c.id === chatId), as the list of matches.
FoundChats(chatId) == SelectSeq(savedChats, LAMBDA c : c.id = chatId)

\* An updater that puts the session's messages after the active ones.
LoadedChat_Merges(state, chat) ==
    [state EXCEPT !.messages = @ \o chat.messages, !.currentChatId = chat.id]

\* The onChatAction updater of loadSavedChat.
LoadedChat(state, chat) ==
    [state EXCEPT !.messages = chat.messages, !.currentChatId = chat.id]

\* loadSavedChat.
loadSavedChat(chatId) ==
    /\ Running /\ ops < MaxChatOps
    /\ ops' = ops + 1
    /\ chatState' = IF Len(FoundChats(chatId)) > 0
                    THEN LoadedChat(chatState, FoundChats(chatId)[1])
                    ELSE chatState
    /\ UNCHANGED <<build, authCalls, authLog, storedUser, isLoading, authError,
                   probe, processing, runs, timers, currentUser,
                   isAuthenticated, mounted, databases, now, fetches, batches,
                   isUploading, lastReport, deletes, deletingDocId,
                   requests, savedChats, isBotReplying, queries, crashed>>

----------------------------------------------------------------------------
(* getFileType on its own.                                                 *)

\* A file name is held as the parts that "." separates: "a.b.PDF" is
\* <<"a", "b", "PDF">>, "pdf" is <<"pdf">>, ".pdf" is <<"", "pdf">>.
MaxParts == 3

\* Parts of names: the extensions of the table, in lower and in mixed case,
\* other words, and the empty part.
NameParts ==
    { "pdf", "doc", "docx", "xls", "xlsx", "ppt", "pptx", "jpg", "jpeg",
      "png", "gif", "txt", "PDF", "Docx", "report", "zip", "" }

FileNames == SeqsUpTo(NameParts, MaxParts) \ {<<>>}

\* String.prototype.toLowerCase on the parts.
toLowerCase(part) ==
    CASE part = "PDF" -> "pdf"
      [] part = "Docx" -> "docx"
      [] OTHER -> part

\* fileName.toLowerCase().split("."): every part in lower case.
SplitLower(fileName) ==
    [i \in 1..Len(fileName) |-> toLowerCase(fileName[i])]

\* The static table of extensions.
FILE_TYPE_EXTENSIONS ==
    [ext \in { ".pdf", ".doc", ".docx", ".xls", ".xlsx", ".ppt", ".pptx",
               ".jpg", ".jpeg", ".png", ".gif", ".txt" } |->
        CASE ext = ".pdf" -> "PDF"
          [] ext \in {".doc", ".docx"} -> "Word"
          [] ext \in {".xls", ".xlsx"} -> "Excel"
          [] ext \in {".ppt", ".pptx"} -> "PowerPoint"
          [] ext \in {".jpg", ".jpeg", ".png", ".gif"} -> "Image"
          [] OTHER -> "Text"]

\* getFileType: the switch on the last part of the split.
getFileType(fileName) ==
    LET extension == SplitLower(fileName)[Len(fileName)]
    IN  CASE extension = "pdf" -> "PDF"
          [] extension \in {"doc", "docx"} -> "Word"
          [] extension \in {"xls", "xlsx"} -> "Excel"
          [] extension \in {"ppt", "pptx"} -> "PowerPoint"
          [] extension \in {"jpg", "jpeg", "png", "gif"} -> "Image"
          [] OTHER -> "Text"

\* A call of getFileType on the file name at hand; the tag is kept.
Classify ==
    /\ probe.verdict = None
    /\ probe' = [probe EXCEPT !.verdict = getFileType(probe.file.name)]
    /\ UNCHANGED <<build, authCalls, authLog, storedUser, isLoading, authError,
                   processing, runs, timers, currentUser, isAuthenticated,
                   mounted, databases, now, fetches, batches, isUploading,
                   lastReport, deletes, deletingDocId, requests, ops,
                   chatState, savedChats, isBotReplying, queries, crashed>>

----------------------------------------------------------------------------
(* Specifications.                                                         *)

\* The collection store with its coordinators.
Next ==
    \/ MountIndex
    \/ IndexEffect
    \/ \E f \in BagToSet(fetches), listing \in Listings :
          ListingResponds(f, listing)
    \/ \E f \in BagToSet(fetches) : ListingFails(f)
    \/ Logout
    \/ LoginStarts
    \/ \E u \in Users : LoginSucceeds(u)
    \/ \E name \in DbNames : createDatabase(name)
    \/ \E dbId \in DbIds(databases) : deleteDatabase(dbId)
    \/ \E dbId \in DbIds(databases), name \in DbNames :
          renameDatabase(dbId, name)
    \/ \E dbId \in DbIds(databases), name \in Names :
          \E doc \in DocSet(DbById(databases, dbId)) :
             renameDocument(dbId, doc.id, name)
    \/ \E dbId \in DbIds(databases) :
          \E doc \in DocSet(DbById(databases, dbId)) : StartDelete(dbId, doc)
    \/ \E d \in BagToSet(deletes) :
          \E response \in DeleteResponses(d.docName) :
             DeleteResponds(d, response)
    \/ \E dbId \in DbIds(databases) :
          \E doc \in DocSet(DbById(databases, dbId)) :
             LocalDelete(dbId, doc.id)
    \/ \E files \in FileLists, dbId \in DbIds(databases) :
          StartUpload(files, dbId)
    \/ \E files \in FileLists : StartChatUpload(files)
    \/ \E b \in BagToSet(batches), message \in Messages :
          UploadSucceeds(b, message)
    \/ \E b \in BagToSet(batches) : UploadFails(b)
    \/ \E files \in FileLists, dbId \in DbIds(databases) :
          LocalUpload(files, dbId)

Spec == Init /\ [][Next]_vars

\* The session: the AuthProvider from its first render on.
InitAuth ==
    /\ build = "backend"
    /\ storedUser \in StoredValues
    /\ currentUser = NoUser
    /\ isAuthenticated = FALSE
    /\ isLoading = TRUE
    /\ authError = None
    /\ authLog = {}
    /\ authCalls = EmptyBag
    /\ probe = NoProbe
    /\ processing = FALSE
    /\ runs = EmptyBag
    /\ timers = EmptyBag
    /\ mounted = FALSE
    /\ databases = <<>>
    /\ now = 1000
    /\ fetches = EmptyBag
    /\ batches = EmptyBag
    /\ isUploading = FALSE
    /\ lastReport = NoReport
    /\ deletes = EmptyBag
    /\ deletingDocId = None
    /\ requests = {}
    /\ ops = 0
    /\ chatState = InitialChatState
    /\ savedChats = InitialSavedChats
    /\ isBotReplying = FALSE
    /\ queries = EmptyBag
    /\ crashed = FALSE

NextAuth ==
    \/ AuthInit
    \/ MountIndex
    \/ Logout
    \/ LoginStarts
    \/ \E u \in Users : LoginSucceeds(u)
    \/ LoginFails
    \/ SignupStarts
    \/ SignupSucceeds
    \/ SignupFails

SpecAuth == InitAuth /\ [][NextAuth]_vars

\* The collection store with document processing.
NextProcess ==
    \/ MountIndex
    \/ \E f \in BagToSet(fetches), listing \in Listings :
          ListingResponds(f, listing)
    \/ \E f \in BagToSet(fetches) : ListingFails(f)
    \/ \E files \in FileLists, dbId \in DbIds(databases) :
          StartUpload(files, dbId)
    \/ \E b \in BagToSet(batches), message \in Messages :
          UploadSucceeds(b, message)
    \/ \E b \in BagToSet(batches) : UploadFails(b)
    \/ \E files \in FileLists, dbId \in DbIds(databases) :
          LocalUpload(files, dbId)
    \/ processDocuments
    \/ \E r \in BagToSet(runs) : DocumentProcessed(r)
    \/ \E r \in BagToSet(runs) : ProcessingEnds(r)

SpecProcess == Init /\ [][NextProcess]_vars

\* A file is picked and validated.
InitValidate ==
    /\ build = "backend"
    /\ probe \in { [file |-> f, verdict |-> None] : f \in ProbeFiles }
    /\ storedUser = Absent
    /\ currentUser = NoUser
    /\ isAuthenticated = FALSE
    /\ isLoading = FALSE
    /\ authError = None
    /\ authLog = {}
    /\ authCalls = EmptyBag
    /\ processing = FALSE
    /\ runs = EmptyBag
    /\ timers = EmptyBag
    /\ mounted = FALSE
    /\ databases = <<>>
    /\ now = 1000
    /\ fetches = EmptyBag
    /\ batches = EmptyBag
    /\ isUploading = FALSE
    /\ lastReport = NoReport
    /\ deletes = EmptyBag
    /\ deletingDocId = None
    /\ requests = {}
    /\ ops = 0
    /\ chatState = InitialChatState
    /\ savedChats = InitialSavedChats
    /\ isBotReplying = FALSE
    /\ queries = EmptyBag
    /\ crashed = FALSE

NextValidate == Validate

SpecValidate == InitValidate /\ [][NextValidate]_vars

\* A file name is classified.
InitFileType ==
    /\ build = "backend"
    /\ probe \in { [file |-> [name |-> n, type |-> "", size |-> 0],
                   verdict |-> None] : n \in FileNames }
    /\ storedUser = Absent
    /\ currentUser = NoUser
    /\ isAuthenticated = FALSE
    /\ isLoading = FALSE
    /\ authError = None
    /\ authLog = {}
    /\ authCalls = EmptyBag
    /\ processing = FALSE
    /\ runs = EmptyBag
    /\ timers = EmptyBag
    /\ mounted = FALSE
    /\ databases = <<>>
    /\ now = 1000
    /\ fetches = EmptyBag
    /\ batches = EmptyBag
    /\ isUploading = FALSE
    /\ lastReport = NoReport
    /\ deletes = EmptyBag
    /\ deletingDocId = None
    /\ requests = {}
    /\ ops = 0
    /\ chatState = InitialChatState
    /\ savedChats = InitialSavedChats
    /\ isBotReplying = FALSE
    /\ queries = EmptyBag
    /\ crashed = FALSE

NextFileType == Classify

SpecFileType == InitFileType /\ [][NextFileType]_vars

\* Upload batches on their own.
NextBatch ==
    \/ MountIndex
    \/ \E files \in BatchLists, dbId \in DbIds(databases) :
          StartUpload(files, dbId)
    \/ \E b \in BagToSet(batches), message \in Messages :
          UploadSucceeds(b, message)
    \/ \E b \in BagToSet(batches) : UploadFails(b)

SpecBatch == Init /\ [][NextBatch]_vars

\* A call that awaits the backend gets its answer, or fails.
BackendAnswers ==
    \/ \E u \in Users : LoginSucceeds(u)
    \/ LoginFails
    \/ SignupSucceeds
    \/ SignupFails
    \/ \E q \in BagToSet(queries) :
          \E answer \in Answers, sources \in SourceLists :
             QuerySucceeds(q, answer, sources)
    \/ \E q \in BagToSet(queries) : QueryFails(q)
    \/ \E d \in BagToSet(deletes) :
          \E response \in DeleteResponses(d.docName) :
             DeleteResponds(d, response)
    \/ \E b \in BagToSet(batches), message \in Messages :
          UploadSucceeds(b, message)
    \/ \E b \in BagToSet(batches) : UploadFails(b)

\* The operations that call the backend, each with its answers.
NextIdle ==
    \/ MountIndex
    \/ Logout
    \/ LoginStarts
    \/ SignupStarts
    \/ \E text \in Inputs : SetInput(text)
    \/ SendByButton
    \/ SendByEnter
    \/ \E dbId \in DbIds(databases) :
          \E doc \in DocSet(DbById(databases, dbId)) : StartDelete(dbId, doc)
    \/ \E files \in FileLists, dbId \in DbIds(databases) :
          StartUpload(files, dbId)
    \/ BackendAnswers

\* Every call is answered in the end, one way or the other.
SpecIdle == Init /\ [][NextIdle]_vars /\ WF_vars(BackendAnswers)

\* The chat session.
NextChat ==
    \/ MountIndex
    \/ Logout
    \/ LoginStarts
    \/ \E u \in Users : LoginSucceeds(u)
    \/ \E text \in Inputs : SetInput(text)
    \/ SendByButton
    \/ SendByEnter
    \/ \E q \in BagToSet(queries) :
          \E answer \in Answers, sources \in SourceLists :
             QuerySucceeds(q, answer, sources)
    \/ \E q \in BagToSet(queries) : QueryFails(q)

SpecChat == Init /\ [][NextChat]_vars

\* The message log of both builds, with message deletion.
NextLog ==
    \/ MountIndex
    \/ \E text \in Inputs : SetInput(text)
    \/ SendByButton
    \/ SendByEnter
    \/ \E q \in BagToSet(queries) :
          \E answer \in Answers, sources \in SourceLists :
             QuerySucceeds(q, answer, sources)
    \/ \E q \in BagToSet(queries) : QueryFails(q)
    \/ LocalSend
    \/ \E t \in BagToSet(timers) : LocalBotReplies(t)
    \/ \E messageId \in MessageIds : deleteChatMessage(messageId)

SpecLog == Init /\ [][NextLog]_vars

\* The message log with the saved sessions.
NextSessions ==
    \/ MountIndex
    \/ \E text \in Inputs : SetInput(text)
    \/ SendByButton
    \/ SendByEnter
    \/ \E q \in BagToSet(queries) :
          \E answer \in Answers, sources \in SourceLists :
             QuerySucceeds(q, answer, sources)
    \/ \E q \in BagToSet(queries) : QueryFails(q)
    \/ LocalSend
    \/ \E t \in BagToSet(timers) : LocalBotReplies(t)
    \/ \E messageId \in MessageIds : deleteChatMessage(messageId)
    \/ handleSaveConversation
    \/ \E chatId \in AskedChatIds : loadSavedChat(chatId)

SpecSessions == Init /\ [][NextSessions]_vars

----------------------------------------------------------------------------
(* Properties.                                                             *)

\* The collection with the given id, before and after a step.
DbBefore(dbId) == DbById(databases, dbId)
DbAfter(dbId) == DbById(databases', dbId)

\* C1: in every reachable state each collection's documentCount equals the
\* length of its documents list.
C1_CountMatchesDocuments ==
    \A i \in 1..Len(databases) :
        databases[i].documentCount = Len(databases[i].documents)

\* The backend's per-file status for the filename reports success.
ConfirmedByBackend(response, filename) ==
    /\ response.transport = "ok"
    /\ \E i \in 1..Len(response.files_status) :
          /\ response.files_status[i].filename = filename
          /\ response.files_status[i].status = "File deleted successfully"

\* C2: deleteDocument removes a document only when the backend's status for
\* its filename reports success; on any other answer the store is left as it
\* was; each confirmed deletion lowers documentCount by exactly 1.
C2_DeleteOnlyConfirmed ==
    [][ \A d \in BagToSet(deletes) :
          \A response \in DeleteResponses(d.docName) :
             DeleteResponds(d, response) =>
                /\ ~ConfirmedByBackend(response, d.docName)
                      => databases' = databases
                /\ ( /\ ConfirmedByBackend(response, d.docName)
                     /\ d.live
                     /\ d.db \in DbIds(databases) )
                      => /\ DbAfter(d.db).documents =
                               SelectSeq(DbBefore(d.db).documents,
                                         LAMBDA doc : doc.id # d.docId)
                         /\ DbAfter(d.db).documentCount =
                               DbBefore(d.db).documentCount - 1
      ]_vars

\* C3: after a file is uploaded to a collection, the collection holds exactly
\* one document with the file's name, the record built from this upload,
\* whatever was uploaded under that name before.
C3_ReuploadKeepsOne ==
    [][ /\ \A b \in BagToSet(batches), message \in Messages :
              ( /\ UploadSucceeds(b, message)
                /\ b.live
                /\ b.db \in DbIds(databases) )
              => DocsNamed(DbAfter(b.db), b.valid[b.idx].name) =
                    << Doc(b.valid[b.idx].name, b.valid[b.idx].name, message,
                           TRUE, "completed") >>
        /\ \A files \in FileLists, dbId \in DbIds(databases) :
              LocalUpload(files, dbId) =>
                 \A i \in 1..Len(files) :
                    validateFileType(files[i]) =>
                       Len(DocsNamed(DbAfter(dbId), files[i].name)) = 1
      ]_vars

\* C4: when the query endpoint answers, exactly one assistant message is
\* appended to the log, with the answer as content and the returned sources
\* as citations.
C4_AnswerAppended ==
    [][ \A q \in BagToSet(queries), answer \in Answers,
           sources \in SourceLists :
          (QuerySucceeds(q, answer, sources) /\ q.live) =>
             /\ Len(chatState'.messages) = Len(chatState.messages) + 1
             /\ SubSeq(chatState'.messages, 1, Len(chatState.messages)) =
                   chatState.messages
             /\ LET last == chatState'.messages[Len(chatState'.messages)]
                IN  /\ last.type = "bot"
                    /\ last.content = answer
                    /\ last.documentReferences = sources
      ]_vars

\* C5: a submission puts the user's message at the end of the log; when its
\* request fails, exactly one assistant message with the fixed error text is
\* appended and every message that was in the log stays as it was, the
\* user's message included.
C5_FailureAppendsError ==
    [][ /\ (SendByButton \/ SendByEnter) =>
              /\ Len(chatState'.messages) = Len(chatState.messages) + 1
              /\ SubSeq(chatState'.messages, 1, Len(chatState.messages)) =
                    chatState.messages
              /\ LET last == chatState'.messages[Len(chatState'.messages)]
                 IN  last.type = "user"
                     /\ last.content = Trim(chatState.currentMessage)
        /\ \A q \in BagToSet(queries) :
              (QueryFails(q) /\ q.live) =>
                 /\ Len(chatState'.messages) = Len(chatState.messages) + 1
                 /\ SubSeq(chatState'.messages, 1, Len(chatState.messages)) =
                       chatState.messages
                 /\ \E i \in 1..Len(chatState'.messages) - 1 :
                       /\ chatState'.messages[i].type = "user"
                       /\ chatState'.messages[i].content = q.question
                 /\ LET last == chatState'.messages[Len(chatState'.messages)]
                    IN  /\ last.type = "bot"
                        /\ last.content = ErrorText
      ]_vars

\* A question failed: the log ends with the question and the error message.
C5_Witness ==
    /\ Running
    /\ Len(chatState.messages) >= 2
    /\ LET n == Len(chatState.messages)
       IN  /\ chatState.messages[n].type = "bot"
           /\ chatState.messages[n].content = ErrorText
           /\ chatState.messages[n - 1].type = "user"

\* The query requests of the mounted chat session that are outstanding.
Outstanding ==
    LET live == { q \in BagToSet(queries) : q.live }
    IN  IF live = {} THEN 0
        ELSE IF Cardinality(live) = 1
        THEN CopiesIn(CHOOSE q \in live : TRUE, queries)
        ELSE 2

\* C6: at most one query request of a chat session is outstanding at any
\* time, whichever input path submits.
C6_SingleFlight == Outstanding <= 1

\* C7: every upload, delete and query request sent while a user is signed in
\* carries as user_id the username of that user.
C7_RequestsCarryIdentity ==
    \A r \in requests : r.auth # "" => r.user_id = r.auth

\* C8: documentCount of every collection is never below zero.
C8_CountNeverNegative ==
    \A i \in 1..Len(databases) : databases[i].documentCount >= 0

\* Two confirmed deletions of one document have completed: the count has
\* fallen behind the documents that are left.
C8_Witness ==
    /\ Running /\ build = "backend"
    /\ \E i \in 1..Len(databases) :
          /\ databases[i].documentCount = 0
          /\ Len(databases[i].documents) > 0

\* What a dispatch of the candidate list has to do: post the first of the
\* files that pass validateFileType and keep the others of them, in order,
\* for the loop; show the number of the files that do not pass.
DispatchesValidOnly(files) ==
    LET valid == SelectSeq(files, LAMBDA f : validateFileType(f))
        M == Cardinality({ i \in 1..Len(files) : ~validateFileType(files[i]) })
    IN  /\ Len(valid) = Len(files) - M
        /\ IF M > 0
           THEN lastReport' = [kind |-> "skipped", count |-> M]
           ELSE lastReport' = lastReport
        /\ IF Len(valid) = 0
           THEN batches' = batches
           ELSE \E b \in BagToSet(batches') :
                   /\ CopiesIn(b, batches') = CopiesIn(b, batches) + 1
                   /\ BagCardinality(batches') = BagCardinality(batches) + 1
                   /\ b.valid = valid
                   /\ b.idx = 1

\* C9: of N candidate files of which M fail validateFileType, exactly the
\* N-M valid ones are submitted, each once and in order, none of the invalid
\* ones, and the skipped count shown is M.
C9_ValidSubmittedInvalidSkipped ==
    [][ /\ \A files \in FileLists :
              /\ StartChatUpload(files) => DispatchesValidOnly(files)
              /\ \A dbId \in DbIds(databases) :
                    StartUpload(files, dbId) => DispatchesValidOnly(files)
        /\ \A b \in BagToSet(batches) :
              /\ b.idx \in 1..Len(b.valid)
              /\ b.submitted = SubSeq(b.valid, 1, b.idx)
              /\ \A i \in 1..Len(b.submitted) :
                    validateFileType(b.submitted[i])
      ]_vars

\* A list with an invalid file was dispatched and its valid file was posted.
C9_Witness ==
    /\ lastReport = [kind |-> "skipped", count |-> 1]
    /\ \E b \in BagToSet(batches) : b.live /\ Len(b.submitted) = 1

\* C10: a failed upload leaves the store as it was and is counted; the next
\* valid file of the batch is posted all the same; when the batch ends, the
\* successes and the failures shown add up to the number of valid files.
C10_FailureDoesNotAbort ==
    [][ \A b \in BagToSet(batches) :
          /\ UploadFails(b) =>
                /\ databases' = databases
                /\ IF b.idx < Len(b.valid)
                   THEN \E b2 \in BagToSet(batches') :
                           /\ b2 = [b EXCEPT
                                      !.idx = b.idx + 1,
                                      !.fail = b.fail + 1,
                                      !.submitted =
                                         Append(b.submitted,
                                                b.valid[b.idx + 1])]
                           /\ CopiesIn(b2, batches') > CopiesIn(b2, batches)
                   ELSE /\ lastReport'.kind = "finished"
                        /\ lastReport'.failedUploads = b.fail + 1
                        /\ lastReport'.successfulUploads
                              + lastReport'.failedUploads = Len(b.valid)
          /\ \A message \in Messages :
                (UploadSucceeds(b, message) /\ b.idx = Len(b.valid)) =>
                   /\ lastReport'.kind = "finished"
                   /\ lastReport'.successfulUploads
                         + lastReport'.failedUploads = Len(b.valid)
      ]_vars

\* A batch ended after a failed file and a file that went through.
C10_Witness ==
    /\ lastReport.kind = "finished"
    /\ lastReport.failedUploads >= 1
    /\ lastReport.successfulUploads >= 1


C12_OneDeletePerDocument ==
    \A d \in BagToSet(deletes) :
       d.live =>
          /\ CopiesIn(d, deletes) = 1
          /\ \A e \in BagToSet(deletes) :
                (e.live /\ e.docId = d.docId) => e = d

\* The document of collection dbId with the given id, after the step.
SameDocAfter(dbId, docId) ==
    { d \in DocSet(DbAfter(dbId)) : d.id = docId }

\* The step stores a freshly uploaded file of that name.
UploadedAfresh(name) ==
    \E b \in BagToSet(batches) :
       /\ b.valid[b.idx].name = name
       /\ \E message \in Messages : UploadSucceeds(b, message)

\* C13: a completed document never returns to processing or pending, unless
\* a file of the same name is uploaded afresh.
C13_StatusOnlyForward ==
    [][ \A dbId \in DbIds(databases) :
          \A doc \in DocSet(DbBefore(dbId)) :
             ( /\ doc.processingStatus = "completed"
               /\ dbId \in DbIds(databases')
               /\ ~UploadedAfresh(doc.name) )
             => \A d \in SameDocAfter(dbId, doc.id) :
                   d.processingStatus \notin {"processing", "pending"} ]_vars

\* A submission: the send button or Enter in the textarea.
Submission == SendByButton \/ SendByEnter

\* C14: a submission whose trimmed question is empty, or made while no user
\* is signed in, sends no query request and appends no message to the log.
C14_RejectedSubmissionLeavesNoTrace ==
    [][ ( /\ Submission
          /\ \/ Trim(chatState.currentMessage) = ""
             \/ currentUser = NoUser )
        => /\ queries' = queries
           /\ requests' = requests
           /\ chatState'.messages = chatState.messages ]_vars

\* C15: a successful login sets the in-memory identity and stores it; logout
\* leaves no user, not authenticated, no stored record, and calls no endpoint.
C15_LoginStoresLogoutClears ==
    [][ /\ \A u \in Users :
              LoginSucceeds(u) =>
                 /\ currentUser' = u
                 /\ isAuthenticated'
                 /\ storedUser' = Stringified(u)
        /\ Logout =>
              /\ currentUser' = NoUser
              /\ ~isAuthenticated'
              /\ storedUser' = Absent
              /\ requests' = requests ]_vars

\* A session that logged in successfully and has logged out since.
C15_Witness ==
    /\ AuthRequest("login") \in requests
    /\ authLog = {}
    /\ authCalls = EmptyBag
    /\ currentUser = NoUser /\ ~isAuthenticated /\ storedUser = Absent

\* C16: a signup, successful or failed, leaves currentUser, isAuthenticated
\* and the stored record as they were.
C16_SignupNeverAuthenticates ==
    [][ (SignupSucceeds \/ SignupFails) =>
           UNCHANGED <<currentUser, isAuthenticated, storedUser>> ]_vars

\* A signup was made in a session that is signed in, and one was refused.
C16_Witness ==
    /\ AuthRequest("signup") \in requests
    /\ "Error during user signup:" \in authLog
    /\ authError = None
    /\ isAuthenticated /\ currentUser \in Users
    /\ storedUser = Stringified(currentUser)

\* One sequence continues the other: the old messages, in order, then more.
Extends(after, before) ==
    /\ Len(after) >= Len(before)
    /\ SubSeq(after, 1, Len(before)) = before

\* C17: while a page instance lives, every step either leaves the messages
\* of the chat log in place and adds at the end, or is the deletion of one
\* message and removes exactly that message.
C17_LogAppendOnly ==
    [][ (mounted /\ mounted') =>
           \/ Extends(chatState'.messages, chatState.messages)
           \/ \E messageId \in MessageIds :
                 /\ deleteChatMessage(messageId)
                 /\ chatState'.messages =
                       SelectSeq(chatState.messages,
                                 LAMBDA m : m.id # messageId) ]_vars

\* The document ids of the i-th collection of the store.
DocIds(i) ==
    { databases[i].documents[k].id : k \in 1..Len(databases[i].documents) }

\* C18: no document id appears in the document lists of two collections.
C18_OneOwner ==
    \A i, j \in 1..Len(databases) :
       i # j => DocIds(i) \cap DocIds(j) = {}

\* C19: validateFileType accepts a file exactly when its declared MIME type
\* is in the allow-list or its size is strictly below 50 * 1024 * 1024
\* bytes, and the call changes nothing else.
C19_ValidateIsTypeOrSize ==
    [][ Validate =>
           /\ probe'.verdict = "accepted" <=>
                 \/ probe.file.type \in allowedTypes
                 \/ probe.file.size < 50 * 1024 * 1024
           /\ probe'.verdict \in {"accepted", "rejected"}
           /\ probe'.file = probe.file
           /\ UNCHANGED <<databases, requests, lastReport, batches,
                          isUploading, chatState, savedChats, storedUser,
                          currentUser, isAuthenticated>> ]_vars

\* A listed type passes although the file is over the ceiling.
C19_Witness ==
    /\ probe.verdict = "accepted"
    /\ probe.file.type \in allowedTypes
    /\ probe.file.size > 50 * 1024 * 1024

\* C20: a file of a listed type whose size exceeds the ceiling is rejected,
\* and a file of any type below the ceiling is accepted.
C20_OversizedRejected ==
    probe.verdict # None =>
       /\ ( /\ probe.file.type \in allowedTypes
            /\ probe.file.size > MAX_FILE_SIZE )
             => probe.verdict = "rejected"
       /\ probe.file.size < MAX_FILE_SIZE => probe.verdict = "accepted"

\* The name has an extension: a "." with a last part after it.
HasExtension(fileName) == Len(fileName) >= 2

\* The lowercase extension of the name, with its dot.
ExtensionOf(fileName) == "." \o toLowerCase(fileName[Len(fileName)])

\* C21: getFileType returns the tag the extension table gives to the name's
\* lowercase extension, and Text when the extension is unknown or absent.
C21_TagFollowsTable ==
    [][ Classify =>
          probe'.verdict =
             IF /\ HasExtension(probe.file.name)
                /\ ExtensionOf(probe.file.name) \in DOMAIN FILE_TYPE_EXTENSIONS
             THEN FILE_TYPE_EXTENSIONS[ExtensionOf(probe.file.name)]
             ELSE "Text" ]_vars

\* C22: in a batch the files submitted so far are the first valid files in
\* their order, and all of them but one have been answered: one request of
\* the batch is outstanding.
C22_SequentialInOrder ==
    \A b \in BagToSet(batches) :
       /\ b.submitted = SubSeq(b.valid, 1, b.idx)
       /\ Len(b.submitted) = b.ok + b.fail + 1

\* The second of two different files is out, after the first one failed.
C22_Witness ==
    \E b \in BagToSet(batches) :
       /\ b.idx = 2 /\ b.fail = 1
       /\ b.valid[1] # b.valid[2]

\* C23: loading a saved session that exists makes the active log exactly
\* that session's messages and the active id its id, and leaves the input
\* buffer and the saved sessions as they were; loading an unknown id changes
\* neither the chat state nor the saved sessions.
C23_LoadReplacesWholly ==
    [][ \A chatId \in AskedChatIds :
          loadSavedChat(chatId) =>
             /\ savedChats' = savedChats
             /\ chatState'.currentMessage = chatState.currentMessage
             /\ IF chatId \in SavedChatIds
                THEN /\ \E i \in 1..Len(savedChats) :
                           /\ savedChats[i].id = chatId
                           /\ chatState'.messages = savedChats[i].messages
                     /\ chatState'.currentChatId = chatId
                ELSE chatState' = chatState ]_vars

\* The first session was loaded again after a later one was saved and then
\* changed, with text waiting in the input buffer.
C23_Witness ==
    /\ chatState.currentChatId = "1"
    /\ Len(savedChats) = 2
    /\ savedChats[2].messages # chatState.messages
    /\ chatState.messages = savedChats[1].messages
    /\ chatState.currentMessage # ""

-----------------------------------------------------------------------------
(* The store and the identity it was listed for.                           *)

\* The ids a collection listed for another identity than the current one
\* can carry.
ForeignIds ==
    { "db-" \o u.username \o "-" \o ToString(t) :
          u \in Users \ {currentUser}, t \in 1000..now }

\* Listing requests in flight that were sent for another identity than the
\* current one.
StaleFetches ==
    { f \in BagToSet(fetches) : f.user # currentUser.username }

\* C25: the store only reflects the listing of the current identity: with
\* nobody logged in the store of the backend build is empty, the store
\* never holds a collection listed for another user, and the answer (or
\* failure) of a listing request sent for another identity than the
\* current one leaves the store as it is.
C25_StoreFollowsIdentity ==
    /\ [](build = "backend" /\ ~isAuthenticated => databases = <<>>)
    /\ [](\A i \in 1..Len(databases) : databases[i].id \notin ForeignIds)
    /\ [][\A f \in StaleFetches :
             /\ (\E listing \in Listings : ListingResponds(f, listing))
                    => databases' = databases
             /\ ListingFails(f) => databases' = databases]_vars

\* C25 witness: bob's page shows bob's own listing while the answer to
\* the listing request of the previous user is still on its way.
C25_Witness ==
    /\ mounted /\ isAuthenticated
    /\ currentUser.username = "bob"
    /\ \E t \in 1000..now :
          databases = Rehydrated("bob", <<"a.pdf", "b.txt">>, t)
    /\ \E f \in StaleFetches : f.user = "alice"

\* The names of all documents of the store.
StoredNames(dbs) ==
    UNION { { dbs[i].documents[k].name : k \in 1..Len(dbs[i].documents) } :
                i \in 1..Len(dbs) }

\* C26: every upload that handleFileUpload counts as successful leaves a
\* document with the returned filename in the store of the page that
\* started it, also when the target collection was deleted or the store
\* was replaced by a rehydration while the request was in flight.
C26_CountedUploadIsStored ==
    [][\A b \in BagToSet(batches) :
          (b.live /\ \E message \in Messages :
                        UploadSucceeds(b, message))
              => UploadResponse(b.valid[b.idx], "").filename
                     \in StoredNames(databases')]_vars

-----------------------------------------------------------------------------
(* Logout and the logins around it.                                        *)

\* C27: once logout has run the session stays unauthenticated until a
\* login started after that logout answers: logout never runs while a
\* login or signup call is outstanding, so no answer of an earlier call
\* is left to arrive, and the session only becomes authenticated by the
\* initial restore or by the answer of an outstanding login.
C27_LogoutIsFinal ==
    /\ [][Logout => (authCalls = EmptyBag /\ authCalls' = EmptyBag
                       /\ ~isAuthenticated')]_vars
    /\ [][(~isAuthenticated /\ isAuthenticated')
             => (AuthInit \/ (\E u \in Users : LoginSucceeds(u)))]_vars

\* C27 witness: logged out, and a login started after the logout is
\* outstanding (three gestures, only login requests, no failed login).
C27_Witness ==
    /\ ops = 3
    /\ ~isAuthenticated /\ currentUser = NoUser
    /\ authCalls = One(AuthCall("login"))
    /\ requests = {AuthRequest("login")}
    /\ authLog = {}

\* A login, signup or logout has completed in this step.
AuthCompletes ==
    \/ \E u \in Users : LoginSucceeds(u)
    \/ LoginFails
    \/ SignupSucceeds
    \/ SignupFails
    \/ Logout

\* C28: after every completed login, signup or logout the persisted
\* record exists exactly when currentUser is non-null, and then it holds
\* that user; in particular a failed login leaves no persisted identity.
C28_RecordMatchesIdentity ==
    [][AuthCompletes =>
          /\ (storedUser' = Absent) <=> (currentUser' = NoUser)
          /\ currentUser' # NoUser => storedUser' = Stringified(currentUser')
      ]_vars

\* C29: in every state after the session initialization isAuthenticated is
\* true exactly when currentUser is non-null, whatever parseable record
\* was stored, and the protected page is never rendered without a user.
C29_AuthenticatedIffUser ==
    (build = "backend" /\ ~isLoading /\ ~crashed)
        => /\ isAuthenticated <=> (currentUser # NoUser)
           /\ mounted => currentUser # NoUser

\* A send has completed (its query was answered or failed) or a message
\* was deleted in this step, and the page is still there.
LogChanged ==
    /\ \/ \E q \in BagToSet(queries) :
             /\ q.live
             /\ \/ QueryFails(q)
                \/ \E answer \in Answers, sources \in SourceLists :
                      QuerySucceeds(q, answer, sources)
       \/ \E messageId \in MessageIds : deleteChatMessage(messageId)
    /\ mounted' /\ ~crashed'

\* C30: whenever a saved session carries the active session id, its stored
\* messages equal the active message log after every completed send,
\* successful or failed, and after every message deletion.
C30_SavedMirrorsActive ==
    [][LogChanged =>
          \A i \in 1..Len(savedChats') :
             savedChats'[i].id = chatState'.currentChatId
                => savedChats'[i].messages = chatState'.messages]_vars

====
